---- MODULE Spec2Model ----
(***************************************************************************)
(* tiny_tamp: the pick-and-place orchestrator loop (tamp.py main), the     *)
(* simulator instance and its command interpreter (structs.py              *)
(* SimulatorInstance) and the command model (structs.py Trajectory,        *)
(* ActivateGrasp, DeactivateGrasp, Sequence, Attachment).                  *)
(*                                                                         *)
(* Lengths and angles are integers in units of 1e-3 (millimetres and       *)
(* milliradians), so the tolerance 1e-2 of tamp.py:137 is 10.  A joint     *)
(* vector is a sequence with one entry per joint of its group.             *)
(***************************************************************************)
EXTENDS Integers, Sequences, FiniteSets, TLC

VARIABLES
    \* ---- tamp.py main ----
    belief,           \* WorldBelief being mutated in place by main
    goal_belief,      \* GoalBelief
    plan_components,  \* list of sub-plans accumulated by the loop
    gi,               \* index (1-based) of the goal object the loop is at
    pc,               \* position of main: "loop", "wrap", "exited", "raised"
    planner_calls,    \* history of the calls of get_pick_place_plan
    stdout,           \* what main printed
    exit_status,      \* <<>> while running, <<status>> once the process ended
    error,            \* name of the uncaught exception, "" if none
    plan_sequence,    \* the Sequence built at tamp.py:161, None before
    \* ---- structs.py SimulatorInstance ----
    sim,              \* one simulator instance (bodies, joints, flags)
    sent,             \* calls received by the hardware sink (PandaSender)
    stack,            \* call stack of execute_sequence: remaining commands per frame
    executed,         \* leaves whose handler ran to completion, in order
    epc,              \* interpreter position: "idle", "run", "traj", "done", "raised"
    traj,             \* command_trajectory frame: remaining waypoints, names built
    raised,           \* name of the exception that ended the interpreter, "" if none
    calls,            \* the top-level calls made on the instance, with arguments
    \* ---- structs.py Trajectory.reverse ----
    t_in,             \* the Trajectory reverse() is called on
    t_out             \* what reverse() produced

mainVars == <<belief, goal_belief, plan_components, gi, pc, planner_calls,
              stdout, exit_status, error, plan_sequence>>
simVars == <<sim, sent, stack, executed, epc, traj, raised, calls>>
revVars == <<t_in, t_out>>
vars == <<belief, goal_belief, plan_components, gi, pc, planner_calls,
          stdout, exit_status, error, plan_sequence,
          sim, sent, stack, executed, epc, traj, raised, calls, t_in, t_out>>

----------------------------------------------------------------------------
(* Bounds *)

\* number of objects in the belief and in the goal
NumObjects == 2
\* number of distinct test configurations of the arm
NumConfs == 2
\* longest path of a Trajectory
MaxPath == 2
\* largest number of calls made on a simulator instance
MaxCalls == 2
\* longest list of leaves of an executed command tree
MaxLen == 2
\* deepest nesting of Sequences in an executed command tree
MaxDepth == 2

----------------------------------------------------------------------------
(* Program constants *)

\* tamp.py:137, 1e-2 in units of 1e-3
Tol == 10

ARM_GROUP == "main_arm"
GRIPPER_GROUP == "main_gripper"

\* structs.py:20-24: joint names of each group
PANDA_GROUPS ==
    [main_arm |-> <<"panda_joint1", "panda_joint2", "panda_joint3", "panda_joint4",
                    "panda_joint5", "panda_joint6", "panda_joint7">>,
     main_gripper |-> <<"panda_finger_joint1", "panda_finger_joint2">>]

\* a test configuration of the arm: all seven joints at k
ArmConf(k) == [j \in 1..Len(PANDA_GROUPS.main_arm) |-> k]

\* structs.py:25-33
DEFAULT_JOINT_POSITIONS == ArmConf(0)

ArmConfs == {ArmConf(k) : k \in 0..NumConfs}

None == [type |-> "None"]

RECURSIVE SeqsUpTo(_, _)
SeqsUpTo(S, n) ==
    IF n = 0 THEN {<<>>}
    ELSE LET shorter == SeqsUpTo(S, n - 1)
         IN  shorter \cup {Append(s, x) : s \in {q \in shorter : Len(q) = n - 1}, x \in S}

Abs(x) == IF x < 0 THEN -x ELSE x

Last(s) == s[Len(s)]

----------------------------------------------------------------------------
(* Belief model, structs.py:51-82 *)

Categories == {"red_box", "blue_box"}

\* poses are <<position, orientation>> on one axis
BeliefPoses == {<<0, 0>>}
SimPoses == {<<0, 0>>, <<50, 0>>}
GoalPoses == {<<0, 0>>, <<10, 10>>, <<11, 0>>, <<0, 11>>, <<50, 0>>}

ObjectState(category, pose) ==
    [create_object |-> "create_box", pose |-> pose, category |-> category]

WorldBelief(object_states, robot_state, gripper_open) ==
    [object_states |-> object_states, robot_state |-> robot_state,
     gripper_open |-> gripper_open]

----------------------------------------------------------------------------
(* Command model, structs.py:267-357 *)

Attachment(parent, parent_link, child, parent_T_child) ==
    [parent |-> parent, parent_link |-> parent_link, child |-> child,
     parent_T_child |-> parent_T_child]

TrajectoryOf(robot, joints, path, velocity_scale, time_after_contact, attachments) ==
    [type |-> "Trajectory", robot |-> robot, joints |-> joints, path |-> path,
     velocity_scale |-> velocity_scale, time_after_contact |-> time_after_contact,
     attachments |-> attachments]

ActivateGrasp(robot, gripper_link, body) ==
    [type |-> "ActivateGrasp", robot |-> robot, gripper_link |-> gripper_link,
     body |-> body]

DeactivateGrasp(robot, gripper_link, body) ==
    [type |-> "DeactivateGrasp", robot |-> robot, gripper_link |-> gripper_link,
     body |-> body]

Sequence(commands, name) ==
    [type |-> "Sequence", commands |-> commands, name |-> name]

----------------------------------------------------------------------------
(* Simulation backend, consumed through tiny_tamp.pb_utils *)

\* pbu.get_pose_distance: (translation distance, angular distance)
get_pose_distance(pose1, pose2) ==
    <<Abs(pose1[1] - pose2[1]), Abs(pose1[2] - pose2[2])>>

\* pbu.multiply of two poses
multiply(pose1, pose2) == <<pose1[1] + pose2[1], pose1[2] + pose2[2]>>

\* pbu.get_link_pose of the tool link: forward kinematics of the arm
get_link_pose(arm_positions) == <<100 * arm_positions[1], 0>>

\* structs.py:46
TABLE_POSE == <<450, 0>>

\* pbu.load_pybullet / pbu.create_box: a new body gets the next free id
create_body(bodies, pose) ==
    [b \in 0..Cardinality(DOMAIN bodies) |->
        IF b \in DOMAIN bodies THEN bodies[b] ELSE pose]

NoBodies == [b \in {} |-> <<0, 0>>]

----------------------------------------------------------------------------
(* SimulatorInstance, structs.py:85-264 *)

\* get_group_limits: (lower, upper) joint limits of the group
get_group_limits(group) ==
    IF group = GRIPPER_GROUP
    THEN <<[j \in 1..Len(PANDA_GROUPS.main_gripper) |-> 0],
           [j \in 1..Len(PANDA_GROUPS.main_gripper) |-> 40]>>
    ELSE <<[j \in 1..Len(PANDA_GROUPS.main_arm) |-> -3000],
           [j \in 1..Len(PANDA_GROUPS.main_arm) |-> 3000]>>

HwCall(op, payload) == [op |-> op, payload |-> payload]

\* The state a method works on: the instance and the hardware sink's log.
World(s, h) == [sim |-> s, sent |-> h]

\* set_group_positions(group, positions), structs.py:229-235
set_group_positions(w, group, positions) ==
    LET s1 == [w.sim EXCEPT !.joints[group] = positions]
    IN  World(s1,
              IF w.sim.real_robot
              THEN Append(w.sent, HwCall("command_arm", positions))
              ELSE w.sent)

\* open_gripper(), structs.py:205-210
open_gripper(w) ==
    LET open_conf == get_group_limits(GRIPPER_GROUP)[2]
        w1 == set_group_positions(w, GRIPPER_GROUP, open_conf)
    IN  World(w1.sim,
              IF w1.sim.real_robot
              THEN Append(w1.sent, HwCall("open_gripper", <<>>))
              ELSE w1.sent)

\* close_gripper(), structs.py:212-217
close_gripper(w) ==
    LET closed_conf == get_group_limits(GRIPPER_GROUP)[1]
        w1 == set_group_positions(w, GRIPPER_GROUP, closed_conf)
    IN  World(w1.sim,
              IF w1.sim.real_robot
              THEN Append(w1.sent, HwCall("close_gripper", <<>>))
              ELSE w1.sent)

\* pbu.set_pose(create_object(client), pose): the factory makes a new body
\* in the client (tamp.py:51-53) and that body is posed
RECURSIVE create_and_pose(_, _)
create_and_pose(bodies, object_states) ==
    IF object_states = <<>> THEN bodies
    ELSE create_and_pose(create_body(bodies, Head(object_states).pose),
                         Tail(object_states))

\* from_belief(belief), structs.py:101-136; real_robot keeps its default
from_belief(b) ==
    LET with_robot == create_body(NoBodies, <<0, 0>>)
        with_table == create_body(with_robot, TABLE_POSE)
        n == Len(b.object_states)
        instance ==
            [robot |-> 0, table |-> 1,
             movable_objects |-> [k \in 1..n |-> 1 + k],
             bodies |-> create_and_pose(with_table, b.object_states),
             joints |-> [main_arm |-> ArmConf(0),
                         main_gripper |-> get_group_limits(GRIPPER_GROUP)[1]],
             real_robot |-> FALSE]
        w0 == World(instance, <<>>)
        w1 == IF b.gripper_open THEN open_gripper(w0) ELSE close_gripper(w0)
    IN  set_group_positions(w1, ARM_GROUP, b.robot_state)

\* set_belief(belief), structs.py:138-149 (the assert of line 139 holds)
set_belief(w, b) ==
    LET s1 == [w.sim EXCEPT !.bodies = create_and_pose(@, b.object_states)]
        w1 == set_group_positions(World(s1, w.sent), ARM_GROUP, b.robot_state)
    IN  IF b.gripper_open THEN open_gripper(w1) ELSE close_gripper(w1)

----------------------------------------------------------------------------
(* The pick-place planner, tiny_tamp.planning.get_pick_place_plan *)

\* tamp.py:84-100: the attachment of the grasp the sampler returns; the
\* tool_link property of structs.py:191-193 returns nothing
GraspAttachment(obj) == Attachment(0, None, obj, <<-10, -1571>>)

\* a pick-place sub-plan: a Sequence of a pick Sequence and a place Sequence,
\* the place ending in the retreat Trajectory to end_conf
PickPlacePlan(obj, robot_state, end_conf) ==
    LET att == GraspAttachment(obj)
        arm == PANDA_GROUPS.main_arm
        pick == Sequence(<<TrajectoryOf(0, arm, <<robot_state, ArmConf(1)>>, 1, "inf", <<>>),
                           ActivateGrasp(0, None, obj)>>, "pick")
        place == Sequence(<<TrajectoryOf(0, arm, <<ArmConf(1), ArmConf(2)>>, 1, "inf", <<att>>),
                            DeactivateGrasp(0, None, obj),
                            TrajectoryOf(0, arm, <<ArmConf(2), end_conf>>, 1, "inf", <<>>)>>,
                          "place")
    IN  Sequence(<<pick, place>>, "pick_place")

\* the statistics record returned with every result
Statistics == [grasp_attempts |-> 1, motion_attempts |-> 1]

\* what a call may return: no sub-plan, or a sub-plan to one of the end
\* configurations
get_pick_place_plan(b, sim_obj, placement_location) ==
    {[subplan |-> None, statistics |-> Statistics]}
    \cup {[subplan |-> PickPlacePlan(sim_obj, b.robot_state, q), statistics |-> Statistics] :
            q \in ArmConfs \ {DEFAULT_JOINT_POSITIONS}}

\* json.dumps of the statistics dict
json_dumps(d) == [json |-> d]

----------------------------------------------------------------------------
(* tamp.py main, lines 103-162 *)

\* tamp.py:127-131: indices of the belief objects of the goal's category,
\* in list order
Matches(b, category) ==
    {k \in 1..Len(b.object_states) : b.object_states[k].category = category}

\* the [0] of tamp.py:131
FirstMatch(b, category) ==
    CHOOSE k \in Matches(b, category) : \A m \in Matches(b, category) : k <= m

\* the comparison of tamp.py:137 made inclusive
NeedsPlanning_inclusive(belief_pose, goal_pose) ==
    LET errs == get_pose_distance(belief_pose, goal_pose)
    IN  (errs[1] >= Tol) \/ (errs[2] >= Tol)

\* tamp.py:133-137
NeedsPlanning(belief_pose, goal_pose) ==
    LET errs == get_pose_distance(belief_pose, goal_pose)
    IN  (errs[1] > Tol) \/ (errs[2] > Tol)

\* tamp.py:157 taking the first waypoint of the last trajectory
UpdatedBelief_first_waypoint(b, belief_object_index, goal_object_state, subplan) ==
    [b EXCEPT !.object_states[belief_object_index].pose = goal_object_state.pose,
              !.robot_state = Head(Last(Last(subplan.commands).commands).path)]

\* tamp.py:154 left out
UpdatedBelief_pose_kept(b, belief_object_index, goal_object_state, subplan) ==
    [b EXCEPT !.robot_state = Last(Last(Last(subplan.commands).commands).path)]

\* tamp.py:152-157: the belief after a successful sub-plan
UpdatedBelief(b, belief_object_index, goal_object_state, subplan) ==
    [b EXCEPT !.object_states[belief_object_index].pose = goal_object_state.pose,
              !.robot_state = Last(Last(Last(subplan.commands).commands).path)]

\* the twin instance's handle of the belief object, tamp.py:138; the twin is
\* built from the belief at tamp.py:113 and its handles never change
TwinObject(b, belief_object_index) ==
    from_belief(b).sim.movable_objects[belief_object_index]

PlannerCall(goal_index, belief_object_index, sim_obj, placement, result) ==
    [goal_index |-> goal_index, belief_object_index |-> belief_object_index,
     sim_obj |-> sim_obj, placement |-> placement, result |-> result]

InLoop == pc = "loop" /\ gi <= Len(goal_belief.object_states)

\* tamp.py:127-131 with no belief object of the goal's category: the [0]
\* raises IndexError
NoMatch ==
    /\ InLoop
    /\ Matches(belief, goal_belief.object_states[gi].category) = {}
    /\ pc' = "raised"
    /\ error' = "IndexError"
    /\ exit_status' = <<1>>
    /\ UNCHANGED <<belief, goal_belief, plan_components, gi, planner_calls,
                   stdout, plan_sequence>>
    /\ UNCHANGED <<simVars, revVars>>

\* tamp.py:124-137, the object is within tolerance
SkipObject ==
    /\ InLoop
    /\ LET g == goal_belief.object_states[gi]
       IN  /\ Matches(belief, g.category) # {}
           /\ ~NeedsPlanning(belief.object_states[FirstMatch(belief, g.category)].pose,
                             g.pose)
    /\ gi' = gi + 1
    /\ UNCHANGED <<belief, goal_belief, plan_components, pc, planner_calls,
                   stdout, exit_status, error, plan_sequence>>
    /\ UNCHANGED <<simVars, revVars>>

\* tamp.py:124-159, the planner returns a sub-plan
PlanObject ==
    /\ InLoop
    /\ LET g == goal_belief.object_states[gi]
       IN  /\ Matches(belief, g.category) # {}
           /\ LET k == FirstMatch(belief, g.category)
                  sim_obj == TwinObject(belief, k)
              IN  /\ NeedsPlanning(belief.object_states[k].pose, g.pose)
                  /\ \E r \in get_pick_place_plan(belief, sim_obj, g.pose) :
                        /\ r.subplan # None
                        /\ planner_calls' =
                              Append(planner_calls, PlannerCall(gi, k, sim_obj, g.pose, r))
                        /\ belief' = UpdatedBelief(belief, k, g, r.subplan)
                        /\ plan_components' = Append(plan_components, r.subplan)
    /\ gi' = gi + 1
    /\ UNCHANGED <<goal_belief, pc, stdout, exit_status, error, plan_sequence>>
    /\ UNCHANGED <<simVars, revVars>>

\* sys.exit() with no argument: SystemExit(None), exit status 0
sys_exit == <<0>>

\* tamp.py:151 leaving the loop instead of the process
PlanFailure_break ==
    /\ InLoop
    /\ LET g == goal_belief.object_states[gi]
       IN  /\ Matches(belief, g.category) # {}
           /\ LET k == FirstMatch(belief, g.category)
                  sim_obj == TwinObject(belief, k)
              IN  /\ NeedsPlanning(belief.object_states[k].pose, g.pose)
                  /\ \E r \in get_pick_place_plan(belief, sim_obj, g.pose) :
                        /\ r.subplan = None
                        /\ planner_calls' =
                              Append(planner_calls, PlannerCall(gi, k, sim_obj, g.pose, r))
                        /\ stdout' = stdout \o <<"Planning failure", json_dumps(r.statistics)>>
    /\ gi' = Len(goal_belief.object_states) + 1
    /\ UNCHANGED <<belief, goal_belief, plan_components, pc, exit_status, error,
                   plan_sequence>>
    /\ UNCHANGED <<simVars, revVars>>

\* tamp.py:124-151, the planner returns no sub-plan
PlanFailure ==
    /\ InLoop
    /\ LET g == goal_belief.object_states[gi]
       IN  /\ Matches(belief, g.category) # {}
           /\ LET k == FirstMatch(belief, g.category)
                  sim_obj == TwinObject(belief, k)
              IN  /\ NeedsPlanning(belief.object_states[k].pose, g.pose)
                  /\ \E r \in get_pick_place_plan(belief, sim_obj, g.pose) :
                        /\ r.subplan = None
                        /\ planner_calls' =
                              Append(planner_calls, PlannerCall(gi, k, sim_obj, g.pose, r))
                        /\ stdout' = stdout \o <<"Planning failure", json_dumps(r.statistics)>>
    /\ pc' = "exited"
    /\ exit_status' = sys_exit
    /\ UNCHANGED <<belief, goal_belief, plan_components, gi, error, plan_sequence>>
    /\ UNCHANGED <<simVars, revVars>>

\* tamp.py:161-162: the Sequence is built; SimulatorInstance has no
\* execute_command attribute, so the call raises AttributeError
Dispatch ==
    /\ pc = "loop"
    /\ gi > Len(goal_belief.object_states)
    /\ plan_sequence' = Sequence(plan_components, "rearrangement_plan")
    /\ pc' = "raised"
    /\ error' = "AttributeError"
    /\ exit_status' = <<1>>
    /\ UNCHANGED <<belief, goal_belief, plan_components, gi, planner_calls, stdout>>
    /\ UNCHANGED <<simVars, revVars>>

ObjectStates(poses) ==
    {os \in [1..NumObjects -> {ObjectState(c, p) : c \in Categories, p \in poses}] : TRUE}

SimIdle ==
    /\ sim = None /\ sent = <<>> /\ stack = <<>> /\ executed = <<>>
    /\ epc = "off" /\ traj = None /\ raised = "" /\ calls = <<>>

RevIdle == t_in = None /\ t_out = None

\* tamp.py:107-123: the belief comes from perception, the goal from the goal
\* logic; the robot is at its default configuration with the gripper open
Init ==
    /\ \E os \in ObjectStates(BeliefPoses) :
          belief = WorldBelief(os, DEFAULT_JOINT_POSITIONS, TRUE)
    /\ \E os \in ObjectStates(GoalPoses) :
          goal_belief = WorldBelief(os, DEFAULT_JOINT_POSITIONS, TRUE)
    /\ plan_components = <<>>
    /\ gi = 1
    /\ pc = "loop"
    /\ planner_calls = <<>>
    /\ stdout = <<>>
    /\ exit_status = <<>>
    /\ error = ""
    /\ plan_sequence = None
    /\ SimIdle
    /\ RevIdle

Next == NoMatch \/ SkipObject \/ PlanObject \/ PlanFailure \/ Dispatch

Spec == Init /\ [][Next]_vars

----------------------------------------------------------------------------
(* Properties of the orchestrator loop *)

\* the leaves of a command tree, depth first and left to right
RECURSIVE Leaves(_)
RECURSIVE LeavesOfList(_)
Leaves(command) ==
    IF command.type = "Sequence" THEN LeavesOfList(command.commands) ELSE <<command>>
LeavesOfList(commands) ==
    IF commands = <<>> THEN <<>>
    ELSE Leaves(Head(commands)) \o LeavesOfList(Tail(commands))

GoalObject == goal_belief.object_states[gi]
MatchedIndex == FirstMatch(belief, GoalObject.category)
MatchedErrors == get_pose_distance(belief.object_states[MatchedIndex].pose, GoalObject.pose)
AtMatchedObject == InLoop /\ Matches(belief, GoalObject.category) # {}
PlannerInvoked ==
    /\ Len(planner_calls') = Len(planner_calls) + 1
    /\ SubSeq(planner_calls', 1, Len(planner_calls)) = planner_calls
    /\ Last(planner_calls').goal_index = gi
    /\ Last(planner_calls').belief_object_index = MatchedIndex

\* every goal object's first match is within tolerance
GoalAlreadySatisfied ==
    \A j \in 1..Len(goal_belief.object_states) :
        LET g == goal_belief.object_states[j]
        IN  /\ Matches(belief, g.category) # {}
            /\ LET e == get_pose_distance(
                            belief.object_states[FirstMatch(belief, g.category)].pose, g.pose)
               IN  e[1] <= Tol /\ e[2] <= Tol

\* C1: a goal object whose first category match has position error <= 1e-2
\* and orientation error <= 1e-2 (boundary included) is skipped: the planner
\* is not invoked, nothing is appended and the belief is unchanged; the
\* planner is invoked exactly when one of the two errors is > 1e-2.  A run
\* whose belief already satisfies the goal never invokes the planner.
C1_SkipWithinTolerance ==
    [][/\ AtMatchedObject =>
            /\ (MatchedErrors[1] <= Tol /\ MatchedErrors[2] <= Tol) =>
                  /\ planner_calls' = planner_calls
                  /\ plan_components' = plan_components
                  /\ belief' = belief
            /\ (MatchedErrors[1] > Tol \/ MatchedErrors[2] > Tol) <=> PlannerInvoked
       /\ (GoalAlreadySatisfied /\ planner_calls = <<>>) =>
            (GoalAlreadySatisfied' /\ planner_calls' = <<>>)]_vars

\* an object exactly on the boundary (both errors 1e-2) has been skipped
C1_Witness ==
    /\ gi = 2
    /\ planner_calls = <<>>
    /\ plan_components = <<>>
    /\ get_pose_distance(belief.object_states[FirstMatch(belief,
                            goal_belief.object_states[1].category)].pose,
                         goal_belief.object_states[1].pose) = <<Tol, Tol>>

\* C2: when the planner returns a sub-plan for an out-of-tolerance object it
\* was invoked once for it, and right after: the matched belief object's
\* pose is the goal pose, the robot state is the last waypoint of the final
\* trajectory of the sub-plan, the sub-plan is the new last element of the
\* accumulated list, and no other belief object's pose changed.
C2_SuccessUpdatesBelief ==
    [][(AtMatchedObject /\ (MatchedErrors[1] > Tol \/ MatchedErrors[2] > Tol)
          /\ planner_calls' # planner_calls
          /\ Last(planner_calls').result.subplan # None) =>
         LET subplan == Last(planner_calls').result.subplan
             leaves == Leaves(subplan)
         IN  /\ PlannerInvoked
             /\ belief'.object_states[MatchedIndex].pose = GoalObject.pose
             /\ Last(leaves).type = "Trajectory"
             /\ belief'.robot_state = Last(Last(leaves).path)
             /\ plan_components' = Append(plan_components, subplan)
             /\ \A k \in 1..Len(belief.object_states) :
                   k # MatchedIndex =>
                      belief'.object_states[k].pose = belief.object_states[k].pose
             /\ Len(belief'.object_states) = Len(belief.object_states)]_vars

\* the second goal object was planned: its sub-plan is last of two
C2_Witness ==
    /\ gi = 3
    /\ Len(plan_components) = 2
    /\ belief.robot_state # DEFAULT_JOINT_POSITIONS
    /\ belief.object_states[2].pose = goal_belief.object_states[2].pose
    /\ belief.object_states[1].pose = goal_belief.object_states[1].pose

\* C3: once the planner has returned no sub-plan the run is over at that
\* object: that call is the last one, the loop is not advanced, the run has
\* exited, and nothing was built for or sent to the primary instance.
C3_FailureTerminatesRun ==
    \A i \in 1..Len(planner_calls) :
        planner_calls[i].result.subplan = None =>
            /\ i = Len(planner_calls)
            /\ pc = "exited"
            /\ gi = planner_calls[i].goal_index
            /\ plan_sequence = None

\* the planner failed on the second object after a sub-plan for the first
C3_Witness ==
    /\ pc = "exited"
    /\ Len(plan_components) = 1
    /\ gi = 2
    /\ Last(planner_calls).result.subplan = None

\* the loop has gone through every goal object without a planning failure
RunCompleted == gi > Len(goal_belief.object_states) /\ pc # "exited"

WithinTolerance(pose1, pose2) ==
    LET e == get_pose_distance(pose1, pose2) IN e[1] <= Tol /\ e[2] <= Tol

GoalReached ==
    \A j \in 1..Len(goal_belief.object_states) :
        \E k \in 1..Len(belief.object_states) :
            /\ belief.object_states[k].category = goal_belief.object_states[j].category
            /\ WithinTolerance(belief.object_states[k].pose,
                               goal_belief.object_states[j].pose)

DistinctGoalCategories ==
    \A j1, j2 \in 1..Len(goal_belief.object_states) :
        j1 # j2 => goal_belief.object_states[j1].category
                      # goal_belief.object_states[j2].category

C7_Original ==
    pc = "exited" =>
        /\ Len(stdout) > 0
        /\ Last(stdout) = json_dumps(Last(planner_calls).result.statistics)
        /\ exit_status # <<>>
        /\ exit_status[1] # 0

----------------------------------------------------------------------------
(* Calls on a simulator instance: set_belief, open_gripper, close_gripper, *)
(* set_group_positions                                                     *)

MainIdle ==
    /\ belief = None /\ goal_belief = None /\ plan_components = <<>> /\ gi = 0
    /\ pc = "off" /\ planner_calls = <<>> /\ stdout = <<>> /\ exit_status = <<>>
    /\ error = "" /\ plan_sequence = None

SimBeliefs ==
    {WorldBelief(os, q, g) :
        os \in [1..NumObjects -> {ObjectState("red_box", p) : p \in SimPoses}],
        q \in {DEFAULT_JOINT_POSITIONS, ArmConf(NumConfs)},
        g \in BOOLEAN}

Call(op, a) == [op |-> op, arg |-> a]

\* an instance built by from_belief, bound or not to the real robot
InstanceInit ==
    /\ \E b \in SimBeliefs, real_robot \in BOOLEAN :
          /\ sim = [from_belief(b).sim EXCEPT !.real_robot = real_robot]
          /\ sent = from_belief(b).sent
    /\ stack = <<>> /\ executed = <<>> /\ epc = "idle" /\ traj = None
    /\ raised = "" /\ calls = <<>>

SimInit == MainIdle /\ RevIdle /\ InstanceInit

CanCall == epc = "idle" /\ Len(calls) < MaxCalls

CallSetBelief ==
    /\ CanCall
    /\ \E b \in SimBeliefs :
          LET w == set_belief(World(sim, sent), b)
          IN  /\ sim' = w.sim
              /\ sent' = w.sent
              /\ calls' = Append(calls, Call("set_belief", b))
    /\ UNCHANGED <<stack, executed, epc, traj, raised>>
    /\ UNCHANGED <<mainVars, revVars>>

CallOpenGripper ==
    /\ CanCall
    /\ LET w == open_gripper(World(sim, sent))
       IN  sim' = w.sim /\ sent' = w.sent
    /\ calls' = Append(calls, Call("open_gripper", None))
    /\ UNCHANGED <<stack, executed, epc, traj, raised>>
    /\ UNCHANGED <<mainVars, revVars>>

CallCloseGripper ==
    /\ CanCall
    /\ LET w == close_gripper(World(sim, sent))
       IN  sim' = w.sim /\ sent' = w.sent
    /\ calls' = Append(calls, Call("close_gripper", None))
    /\ UNCHANGED <<stack, executed, epc, traj, raised>>
    /\ UNCHANGED <<mainVars, revVars>>

CallSetGroupPositions ==
    /\ CanCall
    /\ \E q \in ArmConfs :
          LET w == set_group_positions(World(sim, sent), ARM_GROUP, q)
          IN  /\ sim' = w.sim
              /\ sent' = w.sent
              /\ calls' = Append(calls, Call("set_group_positions",
                                             [group |-> ARM_GROUP, positions |-> q]))
    /\ UNCHANGED <<stack, executed, epc, traj, raised>>
    /\ UNCHANGED <<mainVars, revVars>>

SimNext == CallSetBelief \/ CallOpenGripper \/ CallCloseGripper \/ CallSetGroupPositions

SpecSim == SimInit /\ [][SimNext]_vars

\* C9 as stated: after set_belief(b) every tracked body movable_objects[i]
\* is at b.object_states[i].pose, the arm is at b.robot_state, the gripper
\* is at its open or closed limit as b.gripper_open says, and the session
\* has the bodies it had before (robot, table and one per tracked object).
C9_Original ==
    (calls # <<>> /\ Last(calls).op = "set_belief") =>
        LET b == Last(calls).arg
        IN  /\ \A i \in 1..Len(sim.movable_objects) :
                  sim.bodies[sim.movable_objects[i]] = b.object_states[i].pose
            /\ sim.joints[ARM_GROUP] = b.robot_state
            /\ sim.joints[GRIPPER_GROUP] =
                  get_group_limits(GRIPPER_GROUP)[IF b.gripper_open THEN 2 ELSE 1]
            /\ DOMAIN sim.bodies = 0..(1 + Len(sim.movable_objects))

NewlySent == SubSeq(sent', Len(sent) + 1, Len(sent'))

\* C10 as stated: every arm-configuration command the sink receives carries
\* the arm group's positions just set in simulation, a gripper command
\* follows the gripper being set to that limit in simulation, and opening or
\* closing the gripper sends no arm-configuration command.
C10_Original ==
    [][/\ \A i \in 1..Len(NewlySent) :
             /\ NewlySent[i].op = "command_arm" =>
                   /\ Len(NewlySent[i].payload) = Len(PANDA_GROUPS[ARM_GROUP])
                   /\ NewlySent[i].payload = sim'.joints[ARM_GROUP]
             /\ NewlySent[i].op = "open_gripper" =>
                   sim'.joints[GRIPPER_GROUP] = get_group_limits(GRIPPER_GROUP)[2]
             /\ NewlySent[i].op = "close_gripper" =>
                   sim'.joints[GRIPPER_GROUP] = get_group_limits(GRIPPER_GROUP)[1]
       /\ (Last(calls').op \in {"open_gripper", "close_gripper"}) =>
             \A i \in 1..Len(NewlySent) : NewlySent[i].op # "command_arm"]_vars

----------------------------------------------------------------------------
(* The command interpreter, structs.py:237-264 *)

\* structs.py:242-247: the waypoint as a joint-name to position map
NamedPositions(positions) ==
    [j \in 1..Len(PANDA_GROUPS[ARM_GROUP]) |->
        [name |-> PANDA_GROUPS[ARM_GROUP][j], position |-> positions[j]]]

\* positional parameters, after self, of the gripper methods
\* (structs.py:205 and 212)
GripperMethodArity == [open_gripper |-> 0, close_gripper |-> 0]

\* Python's binding of a call with nargs positional arguments
CallBinds(method, nargs) == nargs = GripperMethodArity[method]

\* an argument that is a Python list
List(items) == [type |-> "list", items |-> items]

\* a Conf is not a command
Conf(robot, joints, positions) ==
    [type |-> "Conf", robot |-> robot, joints |-> joints, positions |-> positions]

TestPath == [i \in 1..MaxPath |-> ArmConf(IF i % 2 = 1 THEN 1 ELSE NumConfs)]
TestAttachment == Attachment(0, 8, 2, <<-10, 0>>)

ExecLeaves ==
    {TrajectoryOf(0, PANDA_GROUPS[ARM_GROUP], TestPath, 1, "inf", <<TestAttachment>>),
     TrajectoryOf(0, PANDA_GROUPS[ARM_GROUP], <<ArmConf(0)>>, 1, "inf", <<>>),
     ActivateGrasp(0, 8, 2),
     DeactivateGrasp(0, 8, 2),
     Conf(0, PANDA_GROUPS[ARM_GROUP], ArmConf(1))}

RECURSIVE Wrap(_, _)
Wrap(command, depth) ==
    IF depth = 0 THEN command ELSE Sequence(<<Wrap(command, depth - 1)>>, "")

RECURSIVE RightNested(_)
RightNested(leaves) ==
    IF Len(leaves) <= 1 THEN leaves
    ELSE <<Head(leaves), Sequence(RightNested(Tail(leaves)), "")>>

RECURSIVE LeftNested(_)
LeftNested(leaves) ==
    IF Len(leaves) <= 1 THEN leaves
    ELSE <<Sequence(LeftNested(SubSeq(leaves, 1, Len(leaves) - 1)), ""), Last(leaves)>>

\* the command lists executed: every list of at most MaxLen leaves, flat,
\* with every leaf wrapped, right-nested and left-nested
ExecLists ==
    LET flat == SeqsUpTo(ExecLeaves, MaxLen)
    IN  UNION {{[i \in 1..Len(l) |-> Wrap(l[i], d)] : d \in 0..MaxDepth}
               \cup {RightNested(l), LeftNested(l)} : l \in flat}

\* what execute_sequence is called with: a list of commands, or a Sequence
ExecArguments ==
    {List(l) : l \in ExecLists} \cup {Sequence(l, "rearrangement_plan") : l \in ExecLists}

ExecInit ==
    /\ MainIdle /\ RevIdle
    /\ \E b \in {c \in SimBeliefs : c.robot_state = DEFAULT_JOINT_POSITIONS /\ c.gripper_open},
          real_robot \in BOOLEAN :
          /\ sim = [from_belief(b).sim EXCEPT !.real_robot = real_robot]
          /\ sent = from_belief(b).sent
    /\ stack = <<>> /\ executed = <<>> /\ epc = "idle" /\ traj = None
    /\ raised = "" /\ calls = <<>>

\* execute_sequence(sequence) is called; line 254 iterates its argument,
\* and a Sequence dataclass is not iterable
CallExecuteSequence ==
    /\ epc = "idle" /\ calls = <<>>
    /\ \E a \in ExecArguments :
          /\ calls' = <<Call("execute_sequence", a)>>
          /\ IF a.type = "list"
             THEN epc' = "run" /\ stack' = <<a.items>> /\ raised' = ""
             ELSE epc' = "raised" /\ stack' = <<>> /\ raised' = "TypeError"
    /\ UNCHANGED <<sim, sent, executed, traj>>
    /\ UNCHANGED <<mainVars, revVars>>

Running == epc = "run" /\ stack # <<>> /\ Last(stack) # <<>>
Current == Head(Last(stack))
Advanced == [stack EXCEPT ![Len(stack)] = Tail(@)]

\* structs.py:255-256 and the entry of command_trajectory (237-239): only
\* the path of the Trajectory is passed on
ExecTrajectory ==
    /\ Running /\ Current.type = "Trajectory"
    /\ traj' = [command |-> Current, remaining |-> Current.path,
                named_positions |-> <<>>, applied |-> 0]
    /\ epc' = "traj"
    /\ stack' = Advanced
    /\ UNCHANGED <<sim, sent, executed, raised, calls>>
    /\ UNCHANGED <<mainVars, revVars>>

\* structs.py:240-248, one waypoint
Waypoint ==
    /\ epc = "traj" /\ traj.remaining # <<>>
    /\ LET w == set_group_positions(World(sim, sent), ARM_GROUP, Head(traj.remaining))
       IN  sim' = w.sim /\ sent' = w.sent
    /\ traj' = [traj EXCEPT !.remaining = Tail(@),
                            !.named_positions =
                                Append(@, NamedPositions(Head(traj.remaining))),
                            !.applied = @ + 1]
    /\ UNCHANGED <<stack, executed, epc, raised, calls>>
    /\ UNCHANGED <<mainVars, revVars>>

\* structs.py:250-251, the end of command_trajectory
TrajectoryDone ==
    /\ epc = "traj" /\ traj.remaining = <<>>
    /\ sent' = IF sim.real_robot
               THEN Append(sent, HwCall("execute_position_path", traj.named_positions))
               ELSE sent
    /\ executed' = Append(executed, traj.command)
    /\ epc' = "run"
    /\ traj' = None
    /\ UNCHANGED <<sim, stack, raised, calls>>
    /\ UNCHANGED <<mainVars, revVars>>

\* structs.py:257-258: close_gripper is called with the command
ExecActivateGrasp ==
    /\ Running /\ Current.type = "ActivateGrasp"
    /\ IF CallBinds("close_gripper", 1)
       THEN /\ LET w == close_gripper(World(sim, sent))
               IN  sim' = w.sim /\ sent' = w.sent
            /\ executed' = Append(executed, Current)
            /\ stack' = Advanced
            /\ UNCHANGED <<epc, raised>>
       ELSE /\ epc' = "raised" /\ raised' = "TypeError"
            /\ UNCHANGED <<sim, sent, executed, stack>>
    /\ UNCHANGED <<traj, calls>>
    /\ UNCHANGED <<mainVars, revVars>>

\* structs.py:259-260: open_gripper is called with the command
ExecDeactivateGrasp ==
    /\ Running /\ Current.type = "DeactivateGrasp"
    /\ IF CallBinds("open_gripper", 1)
       THEN /\ LET w == open_gripper(World(sim, sent))
               IN  sim' = w.sim /\ sent' = w.sent
            /\ executed' = Append(executed, Current)
            /\ stack' = Advanced
            /\ UNCHANGED <<epc, raised>>
       ELSE /\ epc' = "raised" /\ raised' = "TypeError"
            /\ UNCHANGED <<sim, sent, executed, stack>>
    /\ UNCHANGED <<traj, calls>>
    /\ UNCHANGED <<mainVars, revVars>>

\* structs.py:261-262: recursion into the commands of a nested Sequence
ExecSequence ==
    /\ Running /\ Current.type = "Sequence"
    /\ stack' = Append(Advanced, Current.commands)
    /\ UNCHANGED <<sim, sent, executed, epc, traj, raised, calls>>
    /\ UNCHANGED <<mainVars, revVars>>

\* structs.py:263-264
ExecUnknown ==
    /\ Running
    /\ Current.type \notin {"Trajectory", "ActivateGrasp", "DeactivateGrasp", "Sequence"}
    /\ epc' = "raised" /\ raised' = "ValueError"
    /\ UNCHANGED <<sim, sent, stack, executed, traj, calls>>
    /\ UNCHANGED <<mainVars, revVars>>

\* the for loop of line 254 is exhausted: the call returns
ExecReturn ==
    /\ epc = "run" /\ stack # <<>> /\ Last(stack) = <<>>
    /\ stack' = SubSeq(stack, 1, Len(stack) - 1)
    /\ epc' = IF Len(stack) = 1 THEN "done" ELSE "run"
    /\ UNCHANGED <<sim, sent, executed, traj, raised, calls>>
    /\ UNCHANGED <<mainVars, revVars>>

ExecNext ==
    \/ CallExecuteSequence \/ ExecTrajectory \/ Waypoint \/ TrajectoryDone
    \/ ExecActivateGrasp \/ ExecDeactivateGrasp \/ ExecSequence \/ ExecUnknown
    \/ ExecReturn

SpecExec == ExecInit /\ [][ExecNext]_vars

CommandLeaf(c) == c.type \in {"Trajectory", "ActivateGrasp", "DeactivateGrasp"}

\* C4 as stated: once the execution of a list of commands made of nested
\* Sequences and Trajectory, ActivateGrasp and DeactivateGrasp leaves has
\* ended, every leaf was executed once, in depth-first left-to-right order.
C4_Original ==
    (epc \in {"done", "raised"} /\ Last(calls).arg.type = "list") =>
        LET leaves == LeavesOfList(Last(calls).arg.items)
        IN  (\A i \in 1..Len(leaves) : CommandLeaf(leaves[i])) => executed = leaves

\* C5 as stated: while a Trajectory with an Attachment is played, after each
\* waypoint the attached child is at parent_link_world_pose * parent_T_child.
C5_Original ==
    (epc = "traj" /\ traj.applied > 0) =>
        \A i \in 1..Len(traj.command.attachments) :
            LET a == traj.command.attachments[i]
            IN  sim.bodies[a.child] =
                    multiply(get_link_pose(sim.joints[ARM_GROUP]), a.parent_T_child)

----------------------------------------------------------------------------
(* Trajectory.reverse, structs.py:275-291 *)

RECURSIVE Reversed(_)
Reversed(path) ==
    IF path = <<>> THEN <<>> ELSE Append(Reversed(Tail(path)), Head(path))

\* the generated __init__ of the dataclass: robot, joints and path are
\* required and bound in that order (structs.py:277-282)
TrajectoryInit(positional, keywords) ==
    IF Len(positional) < 3
    THEN [type |-> "TypeError"]
    ELSE TrajectoryOf(positional[1], positional[2], positional[3],
                      keywords.velocity_scale, keywords.time_after_contact,
                      keywords.attachments)

\* structs.py:284-291
reverse(t) ==
    TrajectoryInit(<<t.joints, Reversed(t.path)>>,
                   [velocity_scale |-> t.velocity_scale,
                    time_after_contact |-> t.time_after_contact,
                    attachments |-> t.attachments])

RevTrajectories ==
    {TrajectoryOf(0, PANDA_GROUPS[ARM_GROUP], path, v, "inf", atts) :
        path \in SeqsUpTo(ArmConfs, MaxPath),
        v \in {1, 2},
        atts \in {<<>>, <<TestAttachment>>}}

RevInit ==
    /\ MainIdle /\ SimIdle
    /\ t_in \in RevTrajectories
    /\ t_out = None

CallReverse ==
    /\ t_out = None
    /\ t_out' = reverse(t_in)
    /\ UNCHANGED t_in
    /\ UNCHANGED <<mainVars, simVars>>

RevNext == CallReverse

SpecRev == RevInit /\ [][RevNext]_vars

\* C8 as stated: t.reverse() is a Trajectory with the path of t reversed and
\* the robot, joints, velocity_scale, time_after_contact and attachments of t.
C8_Original ==
    t_out # None =>
        /\ t_out.type = "Trajectory"
        /\ t_out.path = Reversed(t_in.path)
        /\ t_out.robot = t_in.robot
        /\ t_out.joints = t_in.joints
        /\ t_out.velocity_scale = t_in.velocity_scale
        /\ t_out.time_after_contact = t_in.time_after_contact
        /\ t_out.attachments = t_in.attachments

====
